---- MODULE Spec2Model ----
(***************************************************************************)
(* A model of the security.txt parser (src/src/lib.rs) and of the loop of  *)
(* its integration test (src/tests/test_parse.rs).                         *)
(*                                                                         *)
(* A Rust &str is a sequence of one-character strings.  An Option is a     *)
(* sequence of length at most one (<<>> is None, <<x>> is Some(x)).  A     *)
(* Result is [ok |-> TRUE, val |-> v] or [ok |-> FALSE, err |-> message];  *)
(* ParseError(String) is its message.  A Url is its serialization.         *)
(***************************************************************************)
EXTENDS Naturals, Sequences, FiniteSets

\* The largest number of lines of an input text.
MaxLines == 3

None == <<>>
Some(x) == <<x>>
Ok(v) == [ok |-> TRUE, val |-> v]
Err(e) == [ok |-> FALSE, err |-> e]

LF == "\n"
CR == "\r"

Upper == <<"A","B","C","D","E","F","G","H","I","J","K","L","M","N","O","P","Q","R","S","T","U","V","W","X","Y","Z">>
Lower == <<"a","b","c","d","e","f","g","h","i","j","k","l","m","n","o","p","q","r","s","t","u","v","w","x","y","z">>
Digits == {"0","1","2","3","4","5","6","7","8","9"}

UpperSet == {Upper[i] : i \in DOMAIN Upper}
AlphaSet == UpperSet \cup {Lower[i] : i \in DOMAIN Lower}
LowerOf == [c \in UpperSet |-> Lower[CHOOSE i \in DOMAIN Upper : Upper[i] = c]]

IsAlpha(c) == c \in AlphaSet
IsAlnum(c) == c \in AlphaSet \/ c \in Digits

\* char::to_lowercase on the ASCII characters; every other character of the
\* model's alphabet has no case.
LowerChar(c) == IF c \in UpperSet THEN LowerOf[c] ELSE c

\* str::to_lowercase
ToLowercase(s) == [i \in DOMAIN s |-> LowerChar(s[i])]

\* The positions of c in s.
Positions(s, c) == {i \in DOMAIN s : s[i] = c}

\* The least element of P, 0 when P is empty.
LeastOrZero(P) == IF P = {} THEN 0 ELSE CHOOSE i \in P : \A j \in P : i <= j

\* The greatest element of P, 0 when P is empty.
GreatestOrZero(P) == IF P = {} THEN 0 ELSE CHOOSE i \in P : \A j \in P : j <= i

\* The position of the first occurrence of c in s, 0 when there is none.
FirstIndex(s, c) == LeastOrZero(Positions(s, c))

\* The two sides of position k of string, None when k is 0.
SplitAt(string, k) ==
    IF k = 0 THEN None
    ELSE Some(<<SubSeq(string, 1, k - 1), SubSeq(string, k + 1, Len(string))>>)

\* A bug of split_at_str: the split is made at the last occurrence of pattern.
SplitAtLast(string, pattern) ==
    SplitAt(string, GreatestOrZero(Positions(string, pattern)))

\* split_at_str: string.splitn(2, pattern); Some((first, second)) when the
\* pattern occurs, None otherwise.
SplitAtStr(string, pattern) == SplitAt(string, FirstIndex(string, pattern))

\* The pieces of s cut at the positions P of the separator, from position i.
RECURSIVE Pieces(_, _, _)
Pieces(s, i, P) ==
    IF \A k \in P : k < i THEN <<SubSeq(s, i, Len(s))>>
    ELSE <<SubSeq(s, i, LeastOrZero({k \in P : k >= i}) - 1)>>
         \o Pieces(s, LeastOrZero({k \in P : k >= i}) + 1, P)

\* str::split(c): the pieces between the occurrences of c; never empty.
SplitOn(s, c) == Pieces(s, 1, Positions(s, c))

\* s without its leading '/' characters.
RECURSIVE SkipSlashes(_)
SkipSlashes(s) ==
    IF s # <<>> /\ Head(s) = "/" THEN SkipSlashes(Tail(s)) ELSE s

sHttp == <<"h","t","t","p">>
sHttps == <<"h","t","t","p","s">>
sWs == <<"w","s">>
sWss == <<"w","s","s">>
sFtp == <<"f","t","p">>
SpecialSchemes == {sHttp, sHttps, sWs, sWss, sFtp}

IsScheme(s) ==
    /\ s # <<>>
    /\ IsAlpha(s[1])
    /\ \A i \in DOMAIN s : IsAlnum(s[i]) \/ s[i] \in {"+", "-", "."}

\* The Url of a special scheme and of what follows its slashes, the first '/'
\* of which is at position e (0: none): a lower-cased host, which must not
\* be empty, and a path that is at least "/".
SpecialUrl(scheme, after, e) ==
    IF after = <<>> THEN Err("empty host")
    ELSE IF e = 0
    THEN Ok(scheme \o <<":", "/", "/">> \o ToLowercase(after) \o <<"/">>)
    ELSE Ok(scheme \o <<":", "/", "/">> \o ToLowercase(SubSeq(after, 1, e - 1))
                   \o SubSeq(after, e, Len(after)))

\* The Url of a scheme and of what follows its ':': any scheme that is not
\* special is followed by its opaque path, kept as it is.
UrlOfScheme(scheme, remaining) ==
    IF scheme \in SpecialSchemes
    THEN SpecialUrl(scheme, SkipSlashes(remaining),
                    FirstIndex(SkipSlashes(remaining), "/"))
    ELSE Ok(scheme \o <<":">> \o remaining)

\* The Url of an input whose first ':' is at position k (0: none): without a
\* scheme there is no base to resolve against; the scheme is lower-cased.
UrlAt(input, k) ==
    IF k = 0 \/ ~IsScheme(SubSeq(input, 1, k - 1))
    THEN Err("relative URL without a base")
    ELSE UrlOfScheme(ToLowercase(SubSeq(input, 1, k - 1)),
                     SubSeq(input, k + 1, Len(input)))

\* url::Url::parse, as the serialization of the Url it returns, on the inputs
\* of the model: letters, digits, '.', '-', ':' and '/', no port, no query, no
\* fragment, no "file" scheme.
UrlParse(input) == UrlAt(input, FirstIndex(input, ":"))

\* language_tags::LanguageTag::from_str on a tag of one subtag: the primary
\* language, two to eight letters, kept as written.
LanguageTagFromStr(s) ==
    IF \E i \in DOMAIN s : ~(IsAlnum(s[i]) \/ s[i] = "-")
    THEN Err("The langtag contains a char not allowed")
    ELSE IF Len(s) > 8
    THEN Err("A subtag may be eight characters in length at maximum")
    ELSE IF Len(s) < 2 \/ \E i \in DOMAIN s : ~IsAlpha(s[i])
    THEN Err("The given language subtag is invalid")
    ELSE Ok(s)

\* parse_rfc5322_datetime: DateTime::parse_from_str(string, "").  The format
\* string is empty, so it has no item to match: chrono reports any input left
\* over as TooLong, and with no input left it has parsed no field at all, so
\* that building the DateTime fails as NotEnough.
ParseRfc5322Datetime(string) ==
    IF string # <<>> THEN Err("trailing input")
    ELSE Err("input is not enough for unique date and time")

\* The value v before the values of r, or the error r.
Prepend(v, r) == IF r.ok THEN Ok(<<v>> \o r.val) ELSE r

\* The first error of the results rs, or the sequence of their values:
\* Iterator::collect::<Result<Vec<_>, _>>().
RECURSIVE Collect(_)
Collect(rs) ==
    IF rs = <<>> THEN Ok(<<>>)
    ELSE IF ~Head(rs).ok THEN Head(rs)
    ELSE Prepend(Head(rs).val, Collect(Tail(rs)))

\* The names Field::from_str matches the lower-cased name against.
sAcknowledgments == <<"a","c","k","n","o","w","l","e","d","g","m","e","n","t","s">>
sCanonical == <<"c","a","n","o","n","i","c","a","l">>
sContact == <<"c","o","n","t","a","c","t">>
sEncryption == <<"e","n","c","r","y","p","t","i","o","n">>
sExpires == <<"e","x","p","i","r","e","s">>
sHiring == <<"h","i","r","i","n","g">>
sPolicy == <<"p","o","l","i","c","y">>
sPreferredLanguages == <<"p","r","e","f","e","r","r","e","d","-","l","a","n","g","u","a","g","e","s">>

\* The message of the error of a line without ':'.  The source writes the
\* colon between backquotes, which a string of this module cannot hold.
MissingSeparator == "Missing ':'"

\* The messages of the errors of SecurityTxt::from_str.
MissingContact == "Must have at least one Contact field"
MissingExpires == "Must have an Expires field"
DuplicateExpires == "The Expires field must only appear once"
DuplicatePreferredLanguages == "The Preferred-Languages field must only appear once"

\* A value of enum Field: the variant's name and its payload.
Field(tag, val) == [tag |-> tag, val |-> val]

\* Self::Variant(parser(value)?): the variant of the parsed value, or the
\* parser's error as a ParseError (From<..> for ParseError: error.to_string()).
Wrap(tag, r) == IF r.ok THEN Ok(Field(tag, r.val)) ELSE Err(r.err)

\* The language tags of the pieces, or the first error.
TagsOf(pieces) == Collect([i \in DOMAIN pieces |-> LanguageTagFromStr(pieces[i])])

\* The value of a Preferred-Languages field: split on ',', every piece a
\* language tag, the first error otherwise.
ParseLanguages(value) == TagsOf(SplitOn(value, ","))

\* The match of Field::from_str on the lower-cased name.
Dispatch(name, lname, value) ==
    CASE lname = sAcknowledgments -> Wrap("Acknowledgments", UrlParse(value))
      [] lname = sCanonical -> Wrap("Canonical", UrlParse(value))
      [] lname = sContact -> Wrap("Contact", UrlParse(value))
      [] lname = sEncryption -> Wrap("Encryption", UrlParse(value))
      [] lname = sExpires -> Wrap("Expires", ParseRfc5322Datetime(value))
      [] lname = sHiring -> Wrap("Hiring", UrlParse(value))
      [] lname = sPolicy -> Wrap("Policy", UrlParse(value))
      [] lname = sPreferredLanguages ->
             Wrap("PreferredLanguages", ParseLanguages(value))
      [] OTHER -> Ok(Field("Extension", <<name, value>>))

\* Field::from_str once split_at_str has returned sp.
FieldOfSplit(sp) ==
    IF sp = None THEN Err(MissingSeparator)
    ELSE Dispatch(sp[1][1], ToLowercase(sp[1][1]), sp[1][2])

\* impl FromStr for Field
FieldFromStr(string) == FieldOfSplit(SplitAtStr(string, ":"))

\* Ok(Self::Field(r?)): the Line of a parsed field, or its error.
LineOfField(r) == IF r.ok THEN Ok([kind |-> "Field", val |-> r.val]) ELSE r

\* A bug of Line::from_str: a blank line is taken for a comment.
LineFromStrSkipBlank(string) ==
    IF string = <<>> THEN Ok([kind |-> "Comment", val |-> <<>>])
    ELSE IF Head(string) = "#" THEN Ok([kind |-> "Comment", val |-> Tail(string)])
    ELSE LineOfField(FieldFromStr(string))

\* impl FromStr for Line
LineFromStr(string) ==
    IF string # <<>> /\ Head(string) = "#"
    THEN Ok([kind |-> "Comment", val |-> Tail(string)])
    ELSE LineOfField(FieldFromStr(string))

\* The match of the closure of parse_fields on the Line parsed.
FilterMapResult(r) ==
    IF ~r.ok THEN Some(r)
    ELSE IF r.val.kind = "Field" THEN Some(Ok(r.val.val))
    ELSE None

\* The closure parse_fields gives to filter_map: None for a comment, the
\* field or the error of any other line.
FilterMapLine(line) == FilterMapResult(LineFromStr(line))

\* s without its last character when that is a carriage return.
StripCR(s) ==
    IF s # <<>> /\ s[Len(s)] = CR THEN SubSeq(s, 1, Len(s) - 1) ELSE s

\* str::lines of s from position i on, P being the positions of "\n" in s: a
\* line ends at "\n" or "\r\n", and the text after the last "\n" is a line
\* unless it is empty.
RECURSIVE LinesFrom(_, _, _)
LinesFrom(s, i, P) ==
    IF \A k \in P : k < i
    THEN (IF i > Len(s) THEN <<>> ELSE <<SubSeq(s, i, Len(s))>>)
    ELSE <<StripCR(SubSeq(s, i, LeastOrZero({k \in P : k >= i}) - 1))>>
         \o LinesFrom(s, LeastOrZero({k \in P : k >= i}) + 1, P)

\* string.lines()
StrLines(s) == LinesFrom(s, 1, Positions(s, LF))

\* The locals of SecurityTxt::from_str before its loop.
EmptyAcc ==
    [acknowledgments |-> <<>>, canonical |-> <<>>, contacts |-> None,
     encryptions |-> <<>>, expires |-> None, hiring |-> <<>>, policies |-> <<>>,
     preferred_languages |-> None, extensions |-> <<>>]

\* A bug of the loop body: a second Preferred-Languages field replaces the
\* first.
FoldFieldLastLanguagesWin(acc, field) ==
    CASE field.tag = "Acknowledgments" ->
           Ok([acc EXCEPT !.acknowledgments = Append(@, field.val)])
      [] field.tag = "Canonical" ->
           Ok([acc EXCEPT !.canonical = Append(@, field.val)])
      [] field.tag = "Contact" ->
           IF acc.contacts # None
           THEN Ok([acc EXCEPT !.contacts =
                        Some(<<@[1][1], Append(@[1][2], field.val)>>)])
           ELSE Ok([acc EXCEPT !.contacts = Some(<<field.val, <<>>>>)])
      [] field.tag = "Encryption" ->
           Ok([acc EXCEPT !.encryptions = Append(@, field.val)])
      [] field.tag = "Expires" ->
           IF acc.expires # None
           THEN Err(DuplicateExpires)
           ELSE Ok([acc EXCEPT !.expires = Some(field.val)])
      [] field.tag = "Hiring" ->
           Ok([acc EXCEPT !.hiring = Append(@, field.val)])
      [] field.tag = "Policy" ->
           Ok([acc EXCEPT !.policies = Append(@, field.val)])
      [] field.tag = "PreferredLanguages" ->
           Ok([acc EXCEPT !.preferred_languages = Some(field.val)])
      [] field.tag = "Extension" ->
           Ok([acc EXCEPT !.extensions = Append(@, field.val)])

\* A bug of the loop body: a later Contact is put before the earlier ones, and
\* a Hiring url is pushed to the policies.
FoldFieldMisplaced(acc, field) ==
    CASE field.tag = "Acknowledgments" ->
           Ok([acc EXCEPT !.acknowledgments = Append(@, field.val)])
      [] field.tag = "Canonical" ->
           Ok([acc EXCEPT !.canonical = Append(@, field.val)])
      [] field.tag = "Contact" ->
           IF acc.contacts # None
           THEN Ok([acc EXCEPT !.contacts =
                        Some(<<field.val, <<@[1][1]>> \o @[1][2]>>)])
           ELSE Ok([acc EXCEPT !.contacts = Some(<<field.val, <<>>>>)])
      [] field.tag = "Encryption" ->
           Ok([acc EXCEPT !.encryptions = Append(@, field.val)])
      [] field.tag = "Expires" ->
           IF acc.expires # None
           THEN Err(DuplicateExpires)
           ELSE Ok([acc EXCEPT !.expires = Some(field.val)])
      [] field.tag = "Hiring" ->
           Ok([acc EXCEPT !.policies = Append(@, field.val)])
      [] field.tag = "Policy" ->
           Ok([acc EXCEPT !.policies = Append(@, field.val)])
      [] field.tag = "PreferredLanguages" ->
           IF acc.preferred_languages # None
           THEN Err(DuplicatePreferredLanguages)
           ELSE Ok([acc EXCEPT !.preferred_languages = Some(field.val)])
      [] field.tag = "Extension" ->
           Ok([acc EXCEPT !.extensions = Append(@, field.val)])

\* The body of the loop of SecurityTxt::from_str on a field: the locals after
\* it, or the error it returns.
FoldField(acc, field) ==
    CASE field.tag = "Acknowledgments" ->
           Ok([acc EXCEPT !.acknowledgments = Append(@, field.val)])
      [] field.tag = "Canonical" ->
           Ok([acc EXCEPT !.canonical = Append(@, field.val)])
      [] field.tag = "Contact" ->
           IF acc.contacts # None
           THEN Ok([acc EXCEPT !.contacts =
                        Some(<<@[1][1], Append(@[1][2], field.val)>>)])
           ELSE Ok([acc EXCEPT !.contacts = Some(<<field.val, <<>>>>)])
      [] field.tag = "Encryption" ->
           Ok([acc EXCEPT !.encryptions = Append(@, field.val)])
      [] field.tag = "Expires" ->
           IF acc.expires # None
           THEN Err(DuplicateExpires)
           ELSE Ok([acc EXCEPT !.expires = Some(field.val)])
      [] field.tag = "Hiring" ->
           Ok([acc EXCEPT !.hiring = Append(@, field.val)])
      [] field.tag = "Policy" ->
           Ok([acc EXCEPT !.policies = Append(@, field.val)])
      [] field.tag = "PreferredLanguages" ->
           IF acc.preferred_languages # None
           THEN Err(DuplicatePreferredLanguages)
           ELSE Ok([acc EXCEPT !.preferred_languages = Some(field.val)])
      [] field.tag = "Extension" ->
           Ok([acc EXCEPT !.extensions = Append(@, field.val)])

\* The SecurityTxt built from the locals.  A missing expires stays None here;
\* Finish never builds such a document.
Document(acc) ==
    [acknowledgments |-> acc.acknowledgments,
     canonical |-> acc.canonical,
     contacts |-> acc.contacts,
     encryptions |-> acc.encryptions,
     expires |-> acc.expires,
     hiring |-> acc.hiring,
     policies |-> acc.policies,
     preferred_languages |->
         IF acc.preferred_languages = None THEN <<>> ELSE acc.preferred_languages[1],
     extensions |-> acc.extensions]

\* A bug of the end of from_str: the Expires check is forgotten.
FinishNoExpiresCheck(acc) ==
    IF acc.contacts = None THEN Err(MissingContact)
    ELSE Ok(Document(acc))

\* A bug of the end of from_str: Expires is checked before Contact.
FinishExpiresFirst(acc) ==
    IF acc.expires = None THEN Err(MissingExpires)
    ELSE IF acc.contacts = None THEN Err(MissingContact)
    ELSE Ok(Document(acc))

\* The end of SecurityTxt::from_str, after the loop: the two required fields,
\* then the document.
Finish(acc) ==
    IF acc.contacts = None THEN Err(MissingContact)
    ELSE IF acc.expires = None THEN Err(MissingExpires)
    ELSE Ok(Document(acc))

\* The iterator after a line gave item, were it to end at the first error.
Fused(item, rest) ==
    [item |-> item,
     rest |-> IF item # None /\ ~item[1].ok THEN <<>> ELSE Tail(rest)]

\* A bug of parse_fields: the iterator ends at the first error.
PullFused(rest) == Fused(FilterMapLine(Head(rest)), rest)

\* One step of the iterator parse_fields returns, on the lines not yet read:
\* what the closure makes of the next line, and the lines left.
Pull(rest) == [item |-> FilterMapLine(Head(rest)), rest |-> Tail(rest)]

(***************************************************************************)
(* The input texts.                                                        *)
(***************************************************************************)
lContact == <<"C","o","n","t","a","c","t",":","h","t","t","p","s",":","/","/","e","x","a","m","p","l","e",".","c","o","m","/","s","e","c","u","r","i","t","y">>
lContactUpper == <<"C","O","N","T","A","C","T",":","M",":","b">>
lContactRelative == <<"C","o","n","t","a","c","t",":","a">>
lExpires == <<"E","x","p","i","r","e","s",":","2","0","2","5","-","0","1","-","0","1","T","0","0",":","0","0",":","0","0","Z">>
lLanguages == <<"P","r","e","f","e","r","r","e","d","-","L","a","n","g","u","a","g","e","s",":","e","n",",","f","r">>
lLanguagesShort == <<"p","r","e","f","e","r","r","e","d","-","l","a","n","g","u","a","g","e","s",":","e","n",",","e">>
lAcknowledgments == <<"A","c","k","n","o","w","l","e","d","g","m","e","n","t","s",":","h","t","t","p","s",":","/","/","a","b","c",".","c","o","m">>
lCanonical == <<"C","a","n","o","n","i","c","a","l",":","m",":","a">>
lEncryption == <<"E","n","c","r","y","p","t","i","o","n",":","m",":","a">>
lHiring == <<"H","i","r","i","n","g",":","m",":","a">>
lPolicy == <<"P","o","l","i","c","y",":","m",":","a">>
lExtension == <<"X","-","Y",":","v",":","w">>
lBlank == <<>>
lComment == <<"#","c",":","x">>

InputLines ==
    {lContact, lContactUpper, lContactRelative, lExpires, lLanguages,
     lLanguagesShort,
     lAcknowledgments, lCanonical, lEncryption, lHiring, lPolicy, lExtension,
     lBlank, lComment}

\* The lines ls, each followed by s.
RECURSIVE Terminated(_, _)
Terminated(ls, s) ==
    IF ls = <<>> THEN <<>> ELSE Head(ls) \o s \o Terminated(Tail(ls), s)

\* The lines ls with s between them.
Joined(ls, s) ==
    IF ls = <<>> THEN <<>>
    ELSE Head(ls) \o Terminated([i \in 1..(Len(ls) - 1) |-> s \o ls[i + 1]], <<>>)

\* The sequences of at most MaxLines lines of InputLines.
LineSeqs == UNION {[1..n -> InputLines] : n \in 0..MaxLines}

(***************************************************************************)
(* The state: the body of the loop of tests/test_parse.rs on one file.     *)
(***************************************************************************)
VARIABLES
    text,     \* data: the text of the file
    lines,    \* the lines of data, as data.lines() gives them
    pc,       \* "stream": in the loop over parse_fields(&data);
              \* "fold": in the loop of SecurityTxt::from_str; "done": parse returned
    rest,     \* the lines the iterator has not read yet
    entries,  \* the items parse_fields has yielded to the test's loop
    acc,      \* the locals of SecurityTxt::from_str
    result    \* what parse returned, None before it returns

vars == <<text, lines, pc, rest, entries, acc, result>>

\* The text is at most MaxLines lines of InputLines separated by "\n", or
\* fewer than MaxLines lines each ended by "\r\n".
Init ==
    /\ \E ls \in LineSeqs :
          \/ text = Joined(ls, <<LF>>)
          \/ Len(ls) < MaxLines /\ text = Terminated(ls, <<CR, LF>>)
    /\ lines = StrLines(text)
    /\ pc = "stream"
    /\ rest = lines
    /\ entries = <<>>
    /\ acc = EmptyAcc
    /\ result = None

\* The test's loop gets what the iterator made of a line.
Yield(p) ==
    /\ entries' = entries \o p.item
    /\ rest' = p.rest

\* The test's loop over parse_fields(&data) takes the next line.
StreamNext ==
    /\ pc = "stream"
    /\ rest # <<>>
    /\ Yield(Pull(rest))
    /\ UNCHANGED <<text, lines, pc, acc, result>>

\* The iterator is exhausted; the test calls parse(&data), which starts
\* SecurityTxt::from_str: fresh locals and a fresh parse_fields(string).
StreamEnd ==
    /\ pc = "stream"
    /\ rest = <<>>
    /\ pc' = "fold"
    /\ rest' = StrLines(text)
    /\ acc' = EmptyAcc
    /\ UNCHANGED <<text, lines, entries, result>>

\* The loop goes on with the locals r holds, or from_str returns r's error.
Continue(r) ==
    IF r.ok
    THEN /\ acc' = r.val
         /\ UNCHANGED <<pc, result>>
    ELSE /\ result' = Some(r)
         /\ pc' = "done"
         /\ UNCHANGED acc

\* `match field? {..}` on what the iterator made of a line: nothing for a
\* comment, the return of an error, the match on a field.
Match(p) ==
    /\ rest' = p.rest
    /\ IF p.item = None THEN UNCHANGED <<pc, acc, result>>
       ELSE IF ~p.item[1].ok
       THEN /\ result' = Some(p.item[1])
            /\ pc' = "done"
            /\ UNCHANGED acc
       ELSE Continue(FoldField(acc, p.item[1].val))

\* One turn of `for field in parse_fields(string) { match field? {..} }`.
FoldNext ==
    /\ pc = "fold"
    /\ rest # <<>>
    /\ Match(Pull(rest))
    /\ UNCHANGED <<text, lines, entries>>

\* The loop is over: the required fields are checked and parse returns.
FoldEnd ==
    /\ pc = "fold"
    /\ rest = <<>>
    /\ result' = Some(Finish(acc))
    /\ pc' = "done"
    /\ UNCHANGED <<text, lines, rest, entries, acc>>

Next == StreamNext \/ StreamEnd \/ FoldNext \/ FoldEnd

Spec == Init /\ [][Next]_vars

(***************************************************************************)
(* What the claims speak of.                                               *)
(***************************************************************************)
\* The lines of the text.
Lines == lines

\* The lines the iterator has read since it was created.
Consumed == SubSeq(lines, 1, Len(lines) - Len(rest))

\* The lines the test's loop over parse_fields has read.
Streamed == IF pc = "stream" THEN Consumed ELSE Lines

StartsWithHash(l) == l # <<>> /\ l[1] = "#"

\* The lines of ls that do not start with '#', in order.
FieldLines(ls) == SelectSeq(ls, LAMBDA l : ~StartsWithHash(l))

\* What each line of ls parses to as a Field.
Results(ls) == [i \in DOMAIN ls |-> FieldFromStr(ls[i])]

AllOk(rs) == \A i \in DOMAIN rs : rs[i].ok

Is(rs, i, tag) == rs[i].ok /\ rs[i].val.tag = tag

Count(rs, tag) == Cardinality({i \in DOMAIN rs : Is(rs, i, tag)})

\* The payloads of the fields of variant tag among rs, in order.
Vals(rs, tag) ==
    LET sel == SelectSeq(rs, LAMBDA r : r.ok /\ r.val.tag = tag) IN
    [i \in DOMAIN sel |-> sel[i].val.val]

\* The contacts (first, rest) as one sequence.
ContactSeq(c) == IF c = None THEN <<>> ELSE <<c[1][1]>> \o c[1][2]

\* The lines that stop the aggregation: one that does not parse, or a second
\* Expires or a second Preferred-Languages field.
Violations(rs) ==
    {i \in DOMAIN rs :
        \/ ~rs[i].ok
        \/ \E tag \in {"Expires", "PreferredLanguages"} :
             Is(rs, i, tag) /\ \E j \in 1..(i - 1) : Is(rs, j, tag)}

Min(S) == CHOOSE i \in S : \A j \in S : i <= j

\* The error that belongs to the violating line i.
ErrorAt(rs, i) ==
    IF ~rs[i].ok THEN rs[i].err
    ELSE IF rs[i].val.tag = "Expires" THEN DuplicateExpires
    ELSE DuplicatePreferredLanguages

\* The name of a line with a ':', lower-cased.
NameOf(l) == ToLowercase(SubSeq(l, 1, Min({i \in DOMAIN l : l[i] = ":"}) - 1))

\* The line is a field line of that (lower-case) name.
Named(l, name) == ~StartsWithHash(l) /\ (\E i \in DOMAIN l : l[i] = ":") /\ NameOf(l) = name

CountNamed(ls, name) == Cardinality({i \in DOMAIN ls : Named(ls[i], name)})

ExampleUrl == SubSeq(lContact, Len(sContact) + 2, Len(lContact))
ExampleText == lContact \o <<LF>> \o lExpires

\* C2: the text of one valid Contact line and one Expires line with a
\* well-formed timestamp parses to a document whose contacts are that URL
\* alone, whose expires is set and whose other sequences are empty.
C2_ExampleParses ==
    (pc = "done" /\ text = ExampleText) =>
        /\ result[1].ok
        /\ result[1].val.contacts = Some(<<ExampleUrl, <<>>>>)
        /\ result[1].val.expires # None
        /\ result[1].val.acknowledgments = <<>>
        /\ result[1].val.canonical = <<>>
        /\ result[1].val.encryptions = <<>>
        /\ result[1].val.hiring = <<>>
        /\ result[1].val.policies = <<>>
        /\ result[1].val.preferred_languages = <<>>
        /\ result[1].val.extensions = <<>>

\* The lines of ls other than those named Expires.
NotExpires(ls) == SelectSeq(ls, LAMBDA l : ~Named(l, sExpires))

\* C3: a text with two Expires lines (well-formed timestamps), every other
\* line a valid field, fails with DuplicateExpires.
C3_TwoExpires ==
    (/\ pc = "done"
     /\ CountNamed(Lines, sExpires) = 2
     /\ \A i \in DOMAIN Lines : Named(Lines[i], sExpires) => Lines[i] = lExpires
     /\ AllOk(Results(FieldLines(NotExpires(Lines)))))
    => result[1] = Err(DuplicateExpires)

\* C4: a text with no Contact line, otherwise valid (every other line a valid
\* field, at most one Expires line with a well-formed timestamp, at most one
\* Preferred-Languages line), fails with MissingContact.
C4_NoContact ==
    (/\ pc = "done"
     /\ CountNamed(Lines, sContact) = 0
     /\ CountNamed(Lines, sExpires) <= 1
     /\ CountNamed(Lines, sPreferredLanguages) <= 1
     /\ \A i \in DOMAIN Lines : Named(Lines[i], sExpires) => Lines[i] = lExpires
     /\ AllOk(Results(FieldLines(NotExpires(Lines)))))
    => result[1] = Err(MissingContact)

\* C5: parse returns the error of the earliest violating line (one that does
\* not parse, or a second Expires or Preferred-Languages field) and has read
\* no line after it; MissingContact and MissingExpires are returned only when
\* no line violates.
C5_FirstViolation ==
    pc = "done" =>
        LET rs == Results(FieldLines(Lines))
            V == Violations(rs)
        IN  /\ V # {} =>
                 /\ result[1] = Err(ErrorAt(rs, Min(V)))
                 /\ Len(FieldLines(Consumed)) = Min(V)
            /\ V = {} =>
                 \/ result[1].ok
                 \/ result[1].err \in {MissingContact, MissingExpires}
            /\ (~result[1].ok /\ result[1].err \in {MissingContact, MissingExpires})
                 => V = {}

\* parse has returned DuplicatePreferredLanguages for a text whose second
\* Preferred-Languages field is followed by a line that does not parse.
C5_Witness ==
    /\ pc = "done"
    /\ result[1] = Err(DuplicatePreferredLanguages)
    /\ LET rs == Results(FieldLines(Lines)) IN
       /\ Cardinality(Violations(rs)) >= 2
       /\ \E i \in DOMAIN rs : ~rs[i].ok

C7_OneEntryPerFieldLine ==
    LET fl == FieldLines(Streamed) IN
    /\ Len(entries) = Len(fl)
    /\ \A k \in DOMAIN entries : entries[k] = FieldFromStr(fl[k])

\* The iteration is over a text of a comment line, a line that does not parse
\* and, after it, a line that does: the entries are an Err, then an Ok.
C7_Witness ==
    /\ pc # "stream"
    /\ \E i \in DOMAIN Lines : StartsWithHash(Lines[i])
    /\ Len(entries) = 2
    /\ ~entries[1].ok
    /\ entries[2].ok

\* The variant of a recognised (lower-case) name.
VariantOf(lname) ==
    CASE lname = sAcknowledgments -> "Acknowledgments"
      [] lname = sCanonical -> "Canonical"
      [] lname = sContact -> "Contact"
      [] lname = sEncryption -> "Encryption"
      [] lname = sExpires -> "Expires"
      [] lname = sHiring -> "Hiring"
      [] lname = sPolicy -> "Policy"
      [] lname = sPreferredLanguages -> "PreferredLanguages"

RecognisedNames ==
    {sAcknowledgments, sCanonical, sContact, sEncryption, sExpires, sHiring,
     sPolicy, sPreferredLanguages}

\* What the grammar of a variant makes of a value.
Grammar(tag, value) ==
    CASE tag = "Expires" -> ParseRfc5322Datetime(value)
      [] tag = "PreferredLanguages" -> ParseLanguages(value)
      [] OTHER -> UrlParse(value)

\* C8: the entry of a line without ':' is the MissingSeparator error; the
\* entry of any other line is decided by the text before its first ':', the
\* name, and the text after it, the value: a name that is, ignoring case, a
\* recognised one gives that variant of the value parsed by its grammar, or
\* the grammar's error; any other name gives Extension(name, value), both as
\* written.
C8_SplitAndDispatch ==
    LET fl == FieldLines(Streamed) IN
    \A k \in DOMAIN entries \cap DOMAIN fl :
        LET l == fl[k]
            colons == {i \in DOMAIN l : l[i] = ":"}
        IN  IF colons = {} THEN entries[k] = Err(MissingSeparator)
            ELSE LET c == Min(colons)
                     name == SubSeq(l, 1, c - 1)
                     value == SubSeq(l, c + 1, Len(l))
                 IN  IF ToLowercase(name) \in RecognisedNames
                     THEN LET tag == VariantOf(ToLowercase(name))
                              g == Grammar(tag, value)
                          IN  IF g.ok
                              THEN /\ entries[k].ok
                                   /\ entries[k].val.tag = tag
                                   /\ entries[k].val.val = g.val
                              ELSE entries[k] = Err(g.err)
                     ELSE /\ entries[k].ok
                          /\ entries[k].val.tag = "Extension"
                          /\ entries[k].val.val = <<name, value>>

\* The entries of a text of "X-Y:v:w", "CONTACT:M:b" and a line without ':',
\* in some order.
C8_Witness ==
    /\ pc # "stream"
    /\ \E k \in DOMAIN entries :
         /\ entries[k].ok
         /\ entries[k].val.tag = "Extension"
         /\ entries[k].val.val = <<<<"X", "-", "Y">>, <<"v", ":", "w">>>>
    /\ \E k \in DOMAIN entries :
         /\ entries[k].ok
         /\ entries[k].val.tag = "Contact"
         /\ entries[k].val.val = <<"m", ":", "b">>
    /\ \E k \in DOMAIN entries :
         /\ ~entries[k].ok
         /\ entries[k].err = MissingSeparator

\* C9: when every line parses, no singleton field is duplicated and there is
\* neither a Contact nor an Expires field, parse reports MissingContact;
\* MissingExpires is reported only with a Contact field and no Expires field.
C9_ContactBeforeExpires ==
    pc = "done" =>
        LET rs == Results(FieldLines(Lines)) IN
        /\ (/\ AllOk(rs)
            /\ Count(rs, "Expires") = 0
            /\ Count(rs, "PreferredLanguages") <= 1
            /\ Count(rs, "Contact") = 0)
           => result[1] = Err(MissingContact)
        /\ result[1] = Err(MissingExpires)
           => (Count(rs, "Contact") >= 1 /\ Count(rs, "Expires") = 0)

\* parse has returned MissingContact for a text of valid fields, none of them
\* a Contact or an Expires field.
C9_Witness ==
    /\ pc = "done"
    /\ result[1] = Err(MissingContact)
    /\ LET rs == Results(FieldLines(Lines)) IN
       /\ Len(rs) >= 2
       /\ AllOk(rs)
       /\ Count(rs, "Expires") = 0
       /\ Count(rs, "Contact") = 0

\* C10: parse_fields yields the MissingSeparator error for an empty line, at
\* the line's position, and parse fails with that error when an empty line
\* is the earliest violating line.
C10_BlankLine ==
    LET fl == FieldLines(Streamed) IN
    /\ \A k \in DOMAIN fl :
         fl[k] = <<>> => (k \in DOMAIN entries /\ entries[k] = Err(MissingSeparator))
    /\ pc = "done" =>
         LET all == FieldLines(Lines)
             V == Violations(Results(all))
         IN  (V # {} /\ all[Min(V)] = <<>>) => result[1] = Err(MissingSeparator)

\* parse has returned MissingSeparator for a text whose first line is empty
\* and whose other lines are a Contact field and another valid field.
C10_Witness ==
    /\ pc = "done"
    /\ result[1] = Err(MissingSeparator)
    /\ Len(Lines) = 3
    /\ Lines[1] = <<>>
    /\ LET rs == Results(FieldLines(Tail(Lines))) IN
       /\ Len(rs) = 2
       /\ AllOk(rs)
       /\ Count(rs, "Contact") >= 1
    /\ Len(entries) = 3
    /\ entries[1] = Err(MissingSeparator)

====
